---------------------------- MODULE Spec2Model ----------------------------
(***************************************************************************)
(* setup-cuda: version discovery (fetchAvailableCudaVersions), version     *)
(* resolution (findCudaVersion) and installer location                     *)
(* (getCudaInstallerUrl), modelled from src/cuda.ts, src/utils.ts and      *)
(* src/const.ts.                                                           *)
(*                                                                         *)
(* JavaScript strings are TLA+ strings: Len, SubSeq and \o act on them as  *)
(* .length, .substring and +.  JavaScript arrays and insertion-ordered     *)
(* Sets are sequences.                                                     *)
(***************************************************************************)
EXTENDS Integers, Sequences, FiniteSets, TLC

(***************************************************************************)
(* JavaScript string and number primitives used by the code.               *)
(***************************************************************************)

\* The value of every absent result: versions[-1], a missing destructured
\* element, the value findCudaVersion returns when nothing matches.
Undefined == "<undefined>"

\* Number(...) and parseInt(...) of text that is no number.
NaN == -1

Digits == {"0", "1", "2", "3", "4", "5", "6", "7", "8", "9"}

DigitVal(c) ==
  CASE c = "0" -> 0 [] c = "1" -> 1 [] c = "2" -> 2 [] c = "3" -> 3
    [] c = "4" -> 4 [] c = "5" -> 5 [] c = "6" -> 6 [] c = "7" -> 7
    [] c = "8" -> 8 [] c = "9" -> 9

CharAt(s, i) == SubSeq(s, i, i)

IsDigits(s) == Len(s) > 0 /\ \A i \in 1..Len(s) : CharAt(s, i) \in Digits

RECURSIVE DecimalValue(_)
DecimalValue(s) ==
  IF Len(s) = 0 THEN 0
  ELSE 10 * DecimalValue(SubSeq(s, 1, Len(s) - 1)) + DigitVal(CharAt(s, Len(s)))

\* Number(s) for the texts that reach it here (digits, letters, the empty
\* string): the decimal value, 0 for "", NaN otherwise.
Number(s) ==
  IF Len(s) = 0 THEN 0 ELSE IF IsDigits(s) THEN DecimalValue(s) ELSE NaN

\* parseInt(s): the value of the longest prefix of digits, NaN when there is none.
ParseInt(s) ==
  LET stops == {i \in 1..Len(s) : CharAt(s, i) \notin Digits}
      n == IF stops = {} THEN Len(s)
           ELSE (CHOOSE i \in stops : \A j \in stops : i <= j) - 1
  IN IF n = 0 THEN NaN ELSE DecimalValue(SubSeq(s, 1, n))

\* x || 0 on a number or undefined: NaN, undefined and 0 all give 0.
OrZero(x) == IF x = NaN THEN 0 ELSE x

\* s.split(sep) for a one-character separator: the pieces between
\* consecutive occurrences of sep, empty pieces included.
Split(s, sep) ==
  LET hits == {i \in 1..Len(s) : CharAt(s, i) = sep}
      n == Cardinality(hits)
      cut == [k \in 0..(n + 1) |->
                IF k = 0 THEN 0
                ELSE IF k = n + 1 THEN Len(s) + 1
                ELSE CHOOSE i \in hits : Cardinality({j \in hits : j < i}) = k - 1]
  IN [k \in 1..(n + 1) |-> SubSeq(s, cut[k - 1] + 1, cut[k] - 1)]

\* parts.join(sep)
RECURSIVE Join(_, _)
Join(parts, sep) ==
  IF Len(parts) = 0 THEN ""
  ELSE IF Len(parts) = 1 THEN parts[1]
  ELSE parts[1] \o sep \o Join(Tail(parts), sep)

StartsWith(s, p) == Len(s) >= Len(p) /\ SubSeq(s, 1, Len(p)) = p

EndsWith(s, p) ==
  Len(s) >= Len(p) /\ SubSeq(s, Len(s) - Len(p) + 1, Len(s)) = p

\* array.includes(x)
Includes(arr, x) == \E i \in 1..Len(arr) : arr[i] = x

\* new Set([...arr]) read back in insertion order: the first occurrence of
\* each value is kept.
RECURSIVE SetOf(_)
SetOf(arr) ==
  IF Len(arr) = 0 THEN <<>>
  ELSE LET init == SetOf(SubSeq(arr, 1, Len(arr) - 1))
           x == arr[Len(arr)]
       IN IF Includes(init, x) THEN init ELSE Append(init, x)

(***************************************************************************)
(* src/const.ts                                                            *)
(***************************************************************************)

START_SUPPORTED_CUDA_VERSION == "10.0"

OLD_CUDA_VERSIONS == <<"10.0", "10.1", "10.1.1", "10.1.2", "10.2">>

CUDA_LINKS ==
  [v \in {"10.0", "10.1", "10.1.1", "10.1.2", "10.2"} |->
    CASE v = "10.0" ->
           [md5sumUrl |-> "https://developer.download.nvidia.com/compute/cuda/10.0/Prod/docs/sidebar/md5sum.txt",
            linuxX86Url |-> "http://developer.download.nvidia.com/compute/cuda/10.0/Prod/patches/1/cuda_10.0.130.1_linux.run",
            linuxArm64Url |-> "",
            windowsUrl |-> "https://developer.nvidia.com/compute/cuda/10.0/Prod/local_installers/cuda_10.0.130_411.31_win10"]
      [] v = "10.1" ->
           [md5sumUrl |-> "https://developer.download.nvidia.com/compute/cuda/10.1/Prod/docs/sidebar/md5sum.txt",
            linuxX86Url |-> "https://developer.nvidia.com/compute/cuda/10.1/Prod/local_installers/cuda_10.1.105_418.39_linux.run",
            linuxArm64Url |-> "",
            windowsUrl |-> "https://developer.nvidia.com/compute/cuda/10.1/Prod/local_installers/cuda_10.1.105_418.96_win10.exe"]
      [] v = "10.1.1" ->
           [md5sumUrl |-> "https://developer.download.nvidia.com/compute/cuda/10.1/Prod/docs2/sidebar/md5sum-2.txt",
            linuxX86Url |-> "https://developer.nvidia.com/compute/cuda/10.1/Prod/local_installers/cuda_10.1.168_418.67_linux.run",
            linuxArm64Url |-> "",
            windowsUrl |-> "https://developer.nvidia.com/compute/cuda/10.1/Prod/local_installers/cuda_10.1.168_425.25_win10.exe"]
      [] v = "10.1.2" ->
           [md5sumUrl |-> "https://developer.download.nvidia.com/compute/cuda/10.1/Prod/docs3/sidebar/md5sum.txt",
            linuxX86Url |-> "https://developer.download.nvidia.com/compute/cuda/10.1/Prod/local_installers/cuda_10.1.243_418.87.00_linux.run",
            linuxArm64Url |-> "",
            windowsUrl |-> "https://developer.download.nvidia.com/compute/cuda/10.1/Prod/local_installers/cuda_10.1.243_426.00_win10.exe"]
      [] v = "10.2" ->
           [md5sumUrl |-> "https://developer.download.nvidia.com/compute/cuda/10.2/Prod/docs/sidebar/md5sum2.txt",
            linuxX86Url |-> "https://developer.download.nvidia.com/compute/cuda/10.2/Prod/patches/2/cuda_10.2.2_linux.run",
            linuxArm64Url |-> "",
            windowsUrl |-> "https://developer.download.nvidia.com/compute/cuda/10.2/Prod/local_installers/cuda_10.2.89_441.22_win10.exe"]]

\* version in CUDA_LINKS
InCudaLinks(version) == version \in DOMAIN CUDA_LINKS

(***************************************************************************)
(* src/utils.ts                                                            *)
(***************************************************************************)

\* a.split('.').map(Number)
VersionParts(a) ==
  LET parts == Split(a, ".") IN [i \in 1..Len(parts) |-> Number(parts[i])]

compareVersions(a, b) ==
  LET aParts == VersionParts(a)
      bParts == VersionParts(b)
      n == IF Len(aParts) >= Len(bParts) THEN Len(aParts) ELSE Len(bParts)
      aVal(i) == OrZero(IF i <= Len(aParts) THEN aParts[i] ELSE NaN)
      bVal(i) == OrZero(IF i <= Len(bParts) THEN bParts[i] ELSE NaN)
      diff == {i \in 1..n : aVal(i) # bVal(i)}
  IN IF diff = {} THEN 0
     ELSE LET i == CHOOSE i \in diff : \A j \in diff : i <= j
          IN aVal(i) - bVal(i)

\* One step of a stable sort: x goes after every element that does not
\* compare above it.
RECURSIVE InsertSorted(_, _)
InsertSorted(sorted, x) ==
  IF Len(sorted) = 0 THEN <<x>>
  ELSE IF compareVersions(sorted[Len(sorted)], x) <= 0 THEN Append(sorted, x)
  ELSE Append(InsertSorted(SubSeq(sorted, 1, Len(sorted) - 1), x),
              sorted[Len(sorted)])

\* A sort that leaves the array as it is.
SortSkipped(versions) == versions

\* versions.sort(compareVersions): Array.prototype.sort is stable.
RECURSIVE sortVersions(_)
sortVersions(versions) ==
  IF Len(versions) = 0 THEN <<>>
  ELSE InsertSorted(sortVersions(SubSeq(versions, 1, Len(versions) - 1)),
                    versions[Len(versions)])

(***************************************************************************)
(* State.                                                                  *)
(*                                                                         *)
(* html is what the three upstream listings hold: for each listing, the    *)
(* matches its scanning regular expression finds, in document order (the   *)
(* capture groups of each match).  It is the same for every request of a   *)
(* behaviour.  The remaining variables are the state of one call of an     *)
(* exported function (entry) and of the HTTP requests it has issued.       *)
(***************************************************************************)
VARIABLES
  html,          \* [redistrib, archive, opensource]: the listings' matches
  entry,         \* the exported function that was called, "" before the call
  inputVersion,  \* findCudaVersion's argument
  run,           \* 1 for the first call, 2 for a repeated discovery
  prev,          \* the outcome of the first discovery once a second started
  pc,            \* "idle" | "awaiting" | "reading" (getCudaInstallerUrl
                 \*   waiting for the manifest's body) | "returned" | "failed"
  fetch,         \* per listing fetch: "idle" | "inflight" | "reading" |
                 \*   "fulfilled" | "rejected"
  results,       \* per listing fetch: the array its promise fulfilled with
  settled,       \* the listing fetches in the order they fulfilled
  versions,      \* the array fetchAvailableCudaVersions returned
  found,         \* the value findCudaVersion returned
  error,         \* the error the call failed with
  requests,      \* the URLs of the HTTP GETs the call has issued, in order
  version,       \* getCudaInstallerUrl's arguments
  os,
  arch,
  md5sums,       \* Object.entries of the parsed checksum manifest
  url            \* the value getCudaInstallerUrl returned

vars ==
  <<html, entry, inputVersion, run, prev, pc, fetch, results, settled,
    versions, found, error, requests, version, os, arch, md5sums, url>>

discoveryVars == <<run, prev, fetch, results, settled, versions, found>>

locateVars == <<version, os, arch, md5sums, url>>

(***************************************************************************)
(* Bounds and the inputs drawn within them.                                *)
(***************************************************************************)

\* The most matches one upstream listing holds.
MaxMatches == 1

\* The most lines a checksum manifest holds.
MaxLines == 3

SeqsUpTo(S, n) == UNION {[1..k -> S] : k \in 0..n}

\* redistrib_<version>.json names: a legacy version with a patch component,
\* and a modern version.
RedistribMatches == {"10.2.89", "11.2.0"}

\* "CUDA Toolkit <version>" mentions (pattern 1, one group) and
\* cuda-<n>-<n>[-<n>]- links (pattern 2, two or three groups).
ArchiveMatches ==
  {[pattern |-> 1, groups |-> <<"9.2">>],
   [pattern |-> 1, groups |-> <<"11.2">>],
   [pattern |-> 2, groups |-> <<"11", "10">>]}

\* ><version>/ directory names.
OpensourceMatches == {"10.2.89", "11.10"}

Listings ==
  [redistrib : SeqsUpTo(RedistribMatches, MaxMatches),
   archive : SeqsUpTo(ArchiveMatches, MaxMatches),
   opensource : SeqsUpTo(OpensourceMatches, MaxMatches)]

Specifiers ==
  {"latest", "10", "10.1", "10.2.89", "11", "11.2", "11.2.0", "9.9"}

StatusCodes == {200, 404}

(***************************************************************************)
(* src/cuda.ts: version discovery                                          *)
(***************************************************************************)

Sources == {1, 2, 3}

\* The URL each listing fetch requests; Promise.all's argument order.
ListingUrl(i) ==
  CASE i = 1 -> "https://developer.download.nvidia.com/compute/cuda/redist/"
    [] i = 2 -> "https://developer.nvidia.com/cuda-toolkit-archive"
    [] i = 3 -> "https://developer.download.nvidia.com/compute/cuda/opensource/"

normalizeCudaVersion(v) ==
  LET parts == Split(v, ".")
      major == ParseInt(parts[1])
  IN IF major = NaN THEN v
     ELSE IF major <= 10
       THEN Join(SubSeq(parts, 1, IF Len(parts) < 2 THEN Len(parts) ELSE 2), ".")
     ELSE v

\* The body of fetchRedistribVersions after the response: every match[1]
\* is added to a Set, which is spread and sorted.
RedistribVersions(matches) == sortVersions(SetOf(matches))

\* The version one pattern-2 match of the archive page stands for.
ArchiveLinkVersion(groups) ==
  IF Len(groups) >= 3
  THEN groups[1] \o "." \o groups[2] \o "." \o groups[3]
  ELSE groups[1] \o "." \o groups[2]

RECURSIVE ArchiveAdds(_, _)
ArchiveAdds(matches, pattern) ==
  IF Len(matches) = 0 THEN <<>>
  ELSE (IF matches[1].pattern # pattern THEN <<>>
        ELSE IF pattern = 1 THEN <<matches[1].groups[1]>>
        ELSE <<ArchiveLinkVersion(matches[1].groups)>>)
       \o ArchiveAdds(Tail(matches), pattern)

\* The body of fetchArchiveVersions after the response: the pattern-1 loop
\* runs over the whole page, then the pattern-2 loop, into one Set.
ArchiveVersions(matches) ==
  sortVersions(SetOf(ArchiveAdds(matches, 1) \o ArchiveAdds(matches, 2)))

\* The body of fetchOpensourceVersions after the response.
OpensourceVersions(matches) ==
  sortVersions(SetOf([i \in 1..Len(matches) |-> normalizeCudaVersion(matches[i])]))

\* What listing fetch i fulfils with.
FetchResult(i) ==
  CASE i = 1 -> RedistribVersions(html.redistrib)
    [] i = 2 -> ArchiveVersions(html.archive)
    [] i = 3 -> OpensourceVersions(html.opensource)

\* A discovery that forgets the filter on the minimum supported version.
FilterSkipped(vs) == vs

\* versions.filter(v => compareVersions(v, START_SUPPORTED_CUDA_VERSION) >= 0)
RECURSIVE FilterSupported(_)
FilterSupported(vs) ==
  IF Len(vs) = 0 THEN <<>>
  ELSE (IF compareVersions(vs[1], START_SUPPORTED_CUDA_VERSION) >= 0
        THEN <<vs[1]>> ELSE <<>>) \o FilterSupported(Tail(vs))

\* A merge that spreads the arrays in the order their fetches fulfilled.
SpreadAsSettled(order) == order

\* The order in which the three fulfilled arrays are spread into the Set:
\* the destructured positions of Promise.all's result, whatever the order
\* in which the fetches fulfilled.
SpreadOrder(order) == <<1, 2, 3>>

RECURSIVE Spread(_, _)
Spread(res, order) ==
  IF Len(order) = 0 THEN <<>>
  ELSE res[order[1]] \o Spread(res, Tail(order))

\* The body of fetchAvailableCudaVersions after the await.
MergeVersions(res, order) ==
  FilterSupported(
    sortVersions(SetOf(Spread(res, SpreadOrder(order)) \o OLD_CUDA_VERSIONS)))

\* Promise.allSettled in place of Promise.all: it waits for all three and
\* is fulfilled whatever their outcomes.
PromiseAllSettled(f) ==
  IF \A i \in Sources : f[i] \in {"fulfilled", "rejected"} THEN "fulfilled"
  ELSE "pending"

\* The state of the promise Promise.all returns, from the states of the
\* three promises it was given.
PromiseAll(f) ==
  IF \E i \in Sources : f[i] = "rejected" THEN "rejected"
  ELSE IF \A i \in Sources : f[i] = "fulfilled" THEN "fulfilled"
  ELSE "pending"

(***************************************************************************)
(* src/cuda.ts: version resolution                                         *)
(***************************************************************************)

\* versions.filter(v => v.startsWith(prefix))
RECURSIVE PrefixMatches(_, _)
PrefixMatches(vs, prefix) ==
  IF Len(vs) = 0 THEN <<>>
  ELSE (IF StartsWith(vs[1], prefix) THEN <<vs[1]>> ELSE <<>>)
       \o PrefixMatches(Tail(vs), prefix)

\* versions[0] in place of the last element.
FirstOf(arr) == IF Len(arr) = 0 THEN Undefined ELSE arr[1]

\* versions[versions.length - 1]
LastOf(arr) == IF Len(arr) = 0 THEN Undefined ELSE arr[Len(arr)]

\* The body of findCudaVersion after the await.
ResolveVersion(vs, input) ==
  IF input = "latest" THEN LastOf(vs)
  ELSE IF Includes(vs, input) THEN input
  ELSE LET matchingVersions == PrefixMatches(vs, input \o ".")
       IN IF Len(matchingVersions) > 0 THEN LastOf(matchingVersions)
          ELSE Undefined

NoError == [kind |-> "none"]

FetchError(u, status) == [kind |-> "fetch", url |-> u, statusCode |-> status]

NoPrev == [pc |-> "none", versions |-> <<>>, settled |-> <<>>]

NoResults == [i \in Sources |-> <<>>]

\* No function has been called yet.
Idle ==
  /\ entry = ""
  /\ inputVersion = ""
  /\ run = 1
  /\ prev = NoPrev
  /\ pc = "idle"
  /\ fetch = [i \in Sources |-> "idle"]
  /\ results = NoResults
  /\ settled = <<>>
  /\ versions = <<>>
  /\ found = Undefined
  /\ error = NoError
  /\ requests = <<>>
  /\ version = ""
  /\ os = ""
  /\ arch = ""
  /\ md5sums = <<>>
  /\ url = ""

Init == html \in Listings /\ Idle

\* fetchAvailableCudaVersions up to its await: the three fetch functions are
\* called in turn, each runs to its own await of client.get, and the three
\* promises go to Promise.all.
IssueListingFetches ==
  /\ fetch' = [i \in Sources |-> "inflight"]
  /\ requests' = <<ListingUrl(1), ListingUrl(2), ListingUrl(3)>>
  /\ results' = NoResults
  /\ settled' = <<>>
  /\ versions' = <<>>
  /\ found' = Undefined
  /\ error' = NoError
  /\ pc' = "awaiting"

\* A caller calls fetchAvailableCudaVersions().
fetchAvailableCudaVersions ==
  /\ pc = "idle"
  /\ entry' = "fetchAvailableCudaVersions"
  /\ IssueListingFetches
  /\ UNCHANGED <<html, inputVersion, run, prev, locateVars>>

\* The caller calls fetchAvailableCudaVersions() a second time, once the
\* first call has returned its array.
fetchAvailableCudaVersionsAgain ==
  /\ entry = "fetchAvailableCudaVersions"
  /\ run = 1
  /\ pc = "returned"
  /\ run' = 2
  /\ prev' = [pc |-> pc, versions |-> versions, settled |-> settled]
  /\ IssueListingFetches
  /\ UNCHANGED <<html, entry, inputVersion, locateVars>>

\* A caller calls findCudaVersion(input), which calls
\* fetchAvailableCudaVersions() and awaits it.
findCudaVersion(input) ==
  /\ pc = "idle"
  /\ entry' = "findCudaVersion"
  /\ inputVersion' = input
  /\ IssueListingFetches
  /\ UNCHANGED <<html, run, prev, locateVars>>

\* The response to listing fetch i arrives with its status code.  Any status
\* but 200 throws in the fetch function: its promise is rejected, and
\* Promise.all, if still pending, is rejected with the same error, which
\* the awaiting caller rethrows.
ListingResponse(i, status) ==
  /\ pc \in {"awaiting", "failed"}
  /\ fetch[i] = "inflight"
  /\ fetch' = [fetch EXCEPT ![i] = IF status = 200 THEN "reading" ELSE "rejected"]
  /\ IF PromiseAll(fetch) = "pending" /\ PromiseAll(fetch') = "rejected"
     THEN /\ pc' = "failed"
          /\ error' = FetchError(ListingUrl(i), status)
     ELSE UNCHANGED <<pc, error>>
  /\ UNCHANGED <<html, entry, inputVersion, run, prev, results, settled,
                 versions, found, requests, locateVars>>

\* The body of listing fetch i has been read: the fetch function scans it
\* and its promise is fulfilled.  When that fulfils Promise.all, the caller
\* merges the three arrays and returns; findCudaVersion then resolves its
\* argument against the returned array.
ListingBody(i) ==
  /\ pc \in {"awaiting", "failed"}
  /\ fetch[i] = "reading"
  /\ fetch' = [fetch EXCEPT ![i] = "fulfilled"]
  /\ results' = [results EXCEPT ![i] = FetchResult(i)]
  /\ settled' = Append(settled, i)
  /\ IF PromiseAll(fetch) = "pending" /\ PromiseAll(fetch') = "fulfilled"
     THEN /\ pc' = "returned"
          /\ versions' = MergeVersions(results', settled')
          /\ found' = IF entry = "findCudaVersion"
                      THEN ResolveVersion(versions', inputVersion)
                      ELSE Undefined
     ELSE UNCHANGED <<pc, versions, found>>
  /\ UNCHANGED <<html, entry, inputVersion, run, prev, error, requests,
                 locateVars>>

\* Two calls of fetchAvailableCudaVersions against the same listings.
NextDiscovery ==
  \/ fetchAvailableCudaVersions
  \/ fetchAvailableCudaVersionsAgain
  \/ \E i \in Sources, status \in StatusCodes : ListingResponse(i, status)
  \/ \E i \in Sources : ListingBody(i)

SpecDiscovery == Init /\ [][NextDiscovery]_vars

\* One call of findCudaVersion.
NextFind ==
  \/ \E input \in Specifiers : findCudaVersion(input)
  \/ \E i \in Sources, status \in StatusCodes : ListingResponse(i, status)
  \/ \E i \in Sources : ListingBody(i)

SpecFind == Init /\ [][NextFind]_vars

(***************************************************************************)
(* src/cuda.ts: installer location                                         *)
(***************************************************************************)

\* The members of OS and Arch that getCudaInstallerUrl tells apart.
OS_LINUX == "linux"

OS_WINDOWS == "windows"

ARCH_X86_64 == "x86_64"

ARCH_ARM64_SBSA == "arm64-sbsa"

getDownloadUrl(v, dir, filename) ==
  "https://developer.download.nvidia.com/compute/cuda/" \o v \o "/" \o dir
    \o "/" \o filename

\* parseInt(version.split('.')[0])
MajorVersion(v) == ParseInt(Split(v, ".")[1])

\* majorVersion <= 10: false when majorVersion is NaN.
MajorAtMost10(v) == MajorVersion(v) # NaN /\ MajorVersion(v) <= 10

\* major_version >= 11: false when major_version is NaN.
MajorAtLeast11(v) == MajorVersion(v) # NaN /\ MajorVersion(v) >= 11

Throw(e) == [kind |-> "throw", error |-> e, value |-> ""]

Return(u) == [kind |-> "return", error |-> NoError, value |-> u]

\* The call goes on to fetchMd5sum and requests u.
Get(u) == [kind |-> "get", error |-> NoError, value |-> u]

\* Reading a property of CUDA_LINKS[v] when CUDA_LINKS has no key v.
MissingLinkError(v) == [kind |-> "TypeError", version |-> v]

\* return CUDA_LINKS[v][field], with no check that CUDA_LINKS has the key.
LegacyLookup(v, field) ==
  IF InCudaLinks(v) THEN Return(CUDA_LINKS[v][field])
  ELSE Throw(MissingLinkError(v))

\* The URL fetchMd5sum requests; for a major below 11 it is read from
\* CUDA_LINKS[v], again with no check that the key exists.
getMd5sumUrl(v) ==
  IF MajorAtLeast11(v)
  THEN Get("https://developer.download.nvidia.com/compute/cuda/" \o v
           \o "/docs/sidebar/md5sum.txt")
  ELSE IF InCudaLinks(v) THEN Get(CUDA_LINKS[v].md5sumUrl)
  ELSE Throw(MissingLinkError(v))

\* The block "if (version in CUDA_LINKS)": the URL it returns, or "" when
\* it returns nothing and the function goes on.
LinkTableUrl(v, o, a) ==
  IF ~InCudaLinks(v) THEN ""
  ELSE LET link == CUDA_LINKS[v]
       IN IF o = OS_LINUX /\ a = ARCH_X86_64 /\ link.linuxX86Url # ""
            THEN link.linuxX86Url
          ELSE IF o = OS_LINUX /\ a = ARCH_ARM64_SBSA /\ link.linuxArm64Url # ""
            THEN link.linuxArm64Url
          ELSE IF o = OS_WINDOWS /\ link.windowsUrl # ""
            THEN link.windowsUrl
          ELSE ""

\* A getCudaInstallerUrl that fetches the manifest before it consults the
\* legacy table.
LocateFetchFirst(v, o, a) ==
  IF compareVersions(v, START_SUPPORTED_CUDA_VERSION) < 0
    THEN Throw([kind |-> "unsupported-version", version |-> v])
  ELSE IF MajorAtMost10(v) /\ o = OS_LINUX /\ a = ARCH_ARM64_SBSA
    THEN Throw([kind |-> "unsupported-arm", version |-> v])
  ELSE getMd5sumUrl(v)

\* getCudaInstallerUrl up to its await of fetchMd5sum: it throws, returns a
\* legacy URL, or issues the manifest request.
LocateBegin(v, o, a) ==
  IF compareVersions(v, START_SUPPORTED_CUDA_VERSION) < 0
    THEN Throw([kind |-> "unsupported-version", version |-> v])
  ELSE IF MajorAtMost10(v) /\ o = OS_LINUX /\ a = ARCH_ARM64_SBSA
    THEN Throw([kind |-> "unsupported-arm", version |-> v])
  ELSE IF LinkTableUrl(v, o, a) # ""
    THEN Return(LinkTableUrl(v, o, a))
  ELSE IF MajorAtMost10(v) /\ o = OS_LINUX /\ a = ARCH_X86_64
    THEN LegacyLookup(v, "linuxX86Url")
  ELSE IF MajorAtMost10(v) /\ o = OS_WINDOWS
    THEN LegacyLookup(v, "windowsUrl")
  ELSE getMd5sumUrl(v)

\* An own property key that is an array index: Object.entries lists these
\* first, in ascending numeric order.
IsArrayIndex(k) == IsDigits(k) /\ (k = "0" \/ CharAt(k, 1) # "0")

RECURSIVE IndexKeysInsert(_, _)
IndexKeysInsert(sorted, e) ==
  IF Len(sorted) = 0 THEN <<e>>
  ELSE IF DecimalValue(sorted[Len(sorted)][1]) <= DecimalValue(e[1])
    THEN Append(sorted, e)
  ELSE Append(IndexKeysInsert(SubSeq(sorted, 1, Len(sorted) - 1), e),
              sorted[Len(sorted)])

RECURSIVE IndexKeys(_)
IndexKeys(props) ==
  IF Len(props) = 0 THEN <<>>
  ELSE LET init == IndexKeys(SubSeq(props, 1, Len(props) - 1))
           e == props[Len(props)]
       IN IF IsArrayIndex(e[1]) THEN IndexKeysInsert(init, e) ELSE init

RECURSIVE NamedKeys(_)
NamedKeys(props) ==
  IF Len(props) = 0 THEN <<>>
  ELSE (IF IsArrayIndex(props[1][1]) THEN <<>> ELSE <<props[1]>>)
       \o NamedKeys(Tail(props))

\* Object.entries(obj), obj given as its properties in creation order.
ObjectEntries(props) == IndexKeys(props) \o NamedKeys(props)

\* obj[key] = value: a new key is created last, an existing key keeps its
\* place.
SetProperty(props, key, value) ==
  IF \E i \in 1..Len(props) : props[i][1] = key
  THEN [i \in 1..Len(props) |->
          IF props[i][1] = key THEN <<key, value>> ELSE props[i]]
  ELSE Append(props, <<key, value>>)

\* const [md5sum, filename] = line.split(' '); md5sums[filename] = md5sum
\* (an absent second field is the key "undefined").
RECURSIVE ParseLines(_, _)
ParseLines(lines, props) ==
  IF Len(lines) = 0 THEN props
  ELSE LET fields == Split(lines[1], " ")
           filename == IF Len(fields) >= 2 THEN fields[2] ELSE "undefined"
       IN ParseLines(Tail(lines), SetProperty(props, filename, fields[1]))

\* The body of fetchMd5sum after the response, read as Object.entries.
ParseMd5sum(text) == ObjectEntries(ParseLines(Split(text, "\n"), <<>>))

\* The positions just after a run of one or more digits of s that starts at i.
DigitRunEnds(s, i) ==
  {j + 1 : j \in {k \in i..Len(s) : \A m \in i..k : CharAt(s, m) \in Digits}}

\* The positions just after a "." at one of the positions ps of s.
AfterDot(s, ps) == {p + 1 : p \in {q \in ps : q <= Len(s) /\ CharAt(s, q) = "."}}

\* The positions just after a match of \d+\.\d+(\.\d+)? that starts at i.
DriverVersionEnds(s, i) ==
  LET two == UNION {DigitRunEnds(s, p) : p \in AfterDot(s, DigitRunEnds(s, i))}
      three == UNION {DigitRunEnds(s, p) : p \in AfterDot(s, two)}
  IN two \cup three

HasAt(s, i, lit) ==
  i >= 1 /\ i + Len(lit) - 1 <= Len(s) /\ SubSeq(s, i, i + Len(lit) - 1) = lit

\* new RegExp(`cuda_${version.replace(/\./g, '\\.')}_\\d+\\.\\d+(\\.\\d+)?` +
\* suffix): the version's dots are escaped, so the expression is the literal
\* "cuda_<version>_", a driver version, and the literal suffix.
LinuxPattern(v, a) ==
  [prefix |-> "cuda_" \o v \o "_",
   suffix |-> IF a = ARCH_X86_64 THEN "_linux.run" ELSE "_linux_sbsa.run"]

\* filename.match(pattern): the expression is not anchored.
Matches(filename, pattern) ==
  \E i \in 1..Len(filename) :
    /\ HasAt(filename, i, pattern.prefix)
    /\ \E e \in DriverVersionEnds(filename, i + Len(pattern.prefix)) :
         HasAt(filename, e, pattern.suffix)

\* The Linux loop without its break: the last matching filename.
RECURSIVE LinuxTargetNoBreak(_, _)
LinuxTargetNoBreak(entries, pattern) ==
  IF Len(entries) = 0 THEN Undefined
  ELSE IF Matches(entries[Len(entries)][1], pattern)
    THEN entries[Len(entries)][1]
  ELSE LinuxTargetNoBreak(SubSeq(entries, 1, Len(entries) - 1), pattern)

\* The Linux loop: the first matching filename, where the loop breaks.
RECURSIVE LinuxTarget(_, _)
LinuxTarget(entries, pattern) ==
  IF Len(entries) = 0 THEN Undefined
  ELSE IF Matches(entries[1][1], pattern) THEN entries[1][1]
  ELSE LinuxTarget(Tail(entries), pattern)

\* The Windows loop without its break: the last _windows.exe filename.
RECURSIVE WindowsScanNoBreak(_, _, _)
WindowsScanNoBreak(entries, windowsFilename, win10Filename) ==
  IF Len(entries) = 0
    THEN [windowsFilename |-> windowsFilename, win10Filename |-> win10Filename]
  ELSE IF EndsWith(entries[1][1], "_windows.exe")
    THEN WindowsScanNoBreak(Tail(entries), entries[1][1], win10Filename)
  ELSE IF EndsWith(entries[1][1], "_win10.exe")
    THEN WindowsScanNoBreak(Tail(entries), windowsFilename, entries[1][1])
  ELSE WindowsScanNoBreak(Tail(entries), windowsFilename, win10Filename)

\* The Windows loop over the entries left, with the loop's two variables.
RECURSIVE WindowsScan(_, _, _)
WindowsScan(entries, windowsFilename, win10Filename) ==
  IF Len(entries) = 0
    THEN [windowsFilename |-> windowsFilename, win10Filename |-> win10Filename]
  ELSE IF EndsWith(entries[1][1], "_windows.exe")
    THEN [windowsFilename |-> entries[1][1], win10Filename |-> win10Filename]
  ELSE IF EndsWith(entries[1][1], "_win10.exe")
    THEN WindowsScan(Tail(entries), windowsFilename, entries[1][1])
  ELSE WindowsScan(Tail(entries), windowsFilename, win10Filename)

\* windowsFilename || win10Filename
WindowsTarget(entries) ==
  LET r == WindowsScan(entries, Undefined, Undefined)
  IN IF r.windowsFilename \notin {Undefined, ""} THEN r.windowsFilename
     ELSE r.win10Filename

\* getCudaInstallerUrl after the manifest has been fetched.
LocateFinish(v, o, a, entries) ==
  LET targetFilename ==
        IF o = OS_LINUX THEN LinuxTarget(entries, LinuxPattern(v, a))
        ELSE IF o = OS_WINDOWS THEN WindowsTarget(entries)
        ELSE Undefined
  IN IF targetFilename \in {Undefined, ""}
     THEN Throw([kind |-> "no-matching-installer", version |-> v])
     ELSE Return(getDownloadUrl(v, "local_installers", targetFilename))

LocateVersions ==
  {"9.2", "10.0", "10.1", "10.1.1", "10.1.2", "10.2", "10.2.89", "11.2",
   "11.2.0"}

\* Checksum lines for the installers of 11.2.0: two for Linux x86-64, one
\* for Linux SBSA, two ending in _windows.exe, two ending in _win10.exe, a
\* second checksum for one of these filenames, a line whose filename is an
\* array index, and the empty line a text has after a final line break.
ManifestLines ==
  {"0a1 cuda_11.2.0_460.27.04_linux.run",
   "0a2 cuda_11.2.0_460.32_linux.run",
   "0a3 cuda_11.2.0_460.27.04_linux_sbsa.run",
   "0a4 cuda_11.2.0_460.89_windows.exe",
   "0a5 cuda_11.2.0_461.09_windows.exe",
   "0a6 cuda_11.2.0_460.89_win10.exe",
   "0a7 cuda_11.2.0_461.09_win10.exe",
   "0a8 cuda_11.2.0_460.89_win10.exe",
   "0a9 2021",
   ""}

ManifestTexts == {Join(ls, "\n") : ls \in SeqsUpTo(ManifestLines, MaxLines)}

\* The outcome r of a step of getCudaInstallerUrl.
Outcome(r) ==
  /\ pc' = CASE r.kind = "throw" -> "failed"
             [] r.kind = "return" -> "returned"
             [] r.kind = "get" -> "awaiting"
  /\ error' = r.error
  /\ url' = IF r.kind = "return" THEN r.value ELSE ""
  /\ requests' = IF r.kind = "get" THEN Append(requests, r.value) ELSE requests

\* A caller calls getCudaInstallerUrl(v, o, a).
getCudaInstallerUrl(v, o, a) ==
  /\ pc = "idle"
  /\ entry' = "getCudaInstallerUrl"
  /\ version' = v
  /\ os' = o
  /\ arch' = a
  /\ Outcome(LocateBegin(v, o, a))
  /\ UNCHANGED <<html, inputVersion, discoveryVars, md5sums>>

\* The response to the manifest request arrives with its status code:
\* fetchMd5sum resumes from its await of client.get.  Any status but 200
\* throws, and getCudaInstallerUrl, which awaits fetchMd5sum, fails with
\* that error; on 200 fetchMd5sum calls response.readBody() and waits again.
Md5sumResponse(status) ==
  /\ entry = "getCudaInstallerUrl"
  /\ pc = "awaiting"
  /\ IF status = 200
     THEN pc' = "reading" /\ UNCHANGED error
     ELSE /\ pc' = "failed"
          /\ error' = FetchError(requests[Len(requests)], status)
  /\ UNCHANGED <<html, entry, inputVersion, discoveryVars, requests,
                 locateVars>>

\* The body of the manifest has been read: fetchMd5sum resumes from its
\* await of response.readBody(), parses the text and returns, and
\* getCudaInstallerUrl picks the installer.
Md5sumBody ==
  /\ entry = "getCudaInstallerUrl"
  /\ pc = "reading"
  /\ \E text \in ManifestTexts : md5sums' = ParseMd5sum(text)
  /\ Outcome(LocateFinish(version, os, arch, md5sums'))
  /\ UNCHANGED <<html, entry, inputVersion, discoveryVars, version, os, arch>>

NextLocate ==
  \/ \E v \in LocateVersions, o \in {OS_LINUX, OS_WINDOWS},
        a \in {ARCH_X86_64, ARCH_ARM64_SBSA} : getCudaInstallerUrl(v, o, a)
  \/ \E status \in StatusCodes : Md5sumResponse(status)
  \/ Md5sumBody

\* getCudaInstallerUrl reads no listing.
InitLocate ==
  html = [redistrib |-> <<>>, archive |-> <<>>, opensource |-> <<>>] /\ Idle

SpecLocate == InitLocate /\ [][NextLocate]_vars

(***************************************************************************)
(* Properties.                                                             *)
(***************************************************************************)

Found == entry = "findCudaVersion" /\ pc = "returned"

Elements(arr) == {arr[i] : i \in 1..Len(arr)}

\* v is a maximum of the set S of versions under compareVersions.
IsMaximumOf(v, S) == v \in S /\ \A w \in S : compareVersions(v, w) >= 0

\* A specifier of the form Major.Minor.
IsMajorMinor(s) ==
  LET parts == Split(s, ".")
  IN Len(parts) = 2 /\ IsDigits(parts[1]) /\ IsDigits(parts[2])

\* The catalog entries with the major and minor components of s.
WithMajorMinor(vs, s) ==
  {v \in Elements(vs) :
     /\ Len(VersionParts(v)) >= 2
     /\ VersionParts(v)[1] = VersionParts(s)[1]
     /\ VersionParts(v)[2] = VersionParts(s)[2]}

\* C1: for a specifier Major.Minor, findCudaVersion returns the catalog entry
\* with that major and minor that is highest under compareVersions, also when
\* the catalog holds the bare Major.Minor entry beside patch entries of it.
C1_LatestPatchForMajorMinor ==
  (Found /\ IsMajorMinor(inputVersion)
     /\ WithMajorMinor(versions, inputVersion) # {})
    => IsMaximumOf(found, WithMajorMinor(versions, inputVersion))

\* C2: every version with major <= 10 that findCudaVersion returns is a key
\* of CUDA_LINKS, so getCudaInstallerUrl on (Linux, x86-64) or (Windows, any
\* architecture) never reads a missing CUDA_LINKS entry.
C2_LegacyTableCoverage ==
  (Found /\ found # Undefined /\ MajorAtMost10(found))
    => /\ InCudaLinks(found)
       /\ LocateBegin(found, OS_LINUX, ARCH_X86_64).error.kind # "TypeError"
       /\ \A a \in {ARCH_X86_64, ARCH_ARM64_SBSA} :
            LocateBegin(found, OS_WINDOWS, a).error.kind # "TypeError"

\* C3: the array fetchAvailableCudaVersions returns has pairwise distinct
\* entries, is ascending under compareVersions, and holds no entry that
\* compares below START_SUPPORTED_CUDA_VERSION.
C3_CatalogInvariant ==
  pc = "returned" =>
    /\ \A i, j \in 1..Len(versions) :
         i < j => /\ versions[i] # versions[j]
                  /\ compareVersions(versions[i], versions[j]) <= 0
    /\ \A i \in 1..Len(versions) :
         compareVersions(versions[i], START_SUPPORTED_CUDA_VERSION) >= 0

\* A listing held a version below the minimum, another a legacy version that
\* normalizes onto an entry of OLD_CUDA_VERSIONS, and discovery returned.
C3_Witness ==
  /\ entry = "fetchAvailableCudaVersions"
  /\ pc = "returned"
  /\ html.archive = <<[pattern |-> 1, groups |-> <<"9.2">>]>>
  /\ html.opensource = <<"10.2.89">>
  /\ html.redistrib = <<"11.2.0">>
  /\ Len(versions) = 6

\* C4: no response is handled before all three requests are issued; the merge
\* runs only once all three fetches have fulfilled; and once any fetch has
\* met a status other than 200 the call has failed with that fetch error and
\* no array is ever returned, whatever the others do and in whatever order.
C4_FailFast ==
  /\ (\E i \in Sources : fetch[i] # "idle") =>
       \A i \in Sources : Includes(requests, ListingUrl(i))
  /\ pc = "returned" => \A i \in Sources : fetch[i] = "fulfilled"
  /\ (\E i \in Sources : fetch[i] = "rejected") =>
       /\ pc = "failed"
       /\ error.kind = "fetch"
       /\ versions = <<>>
       /\ found = Undefined

\* Two listing fetches fulfilled, the third was refused, and the call failed.
C4_Witness ==
  /\ entry = "fetchAvailableCudaVersions"
  /\ settled = <<3, 1>>
  /\ fetch[2] = "rejected"
  /\ html.redistrib # <<>>
  /\ pc = "failed"

\* C5: two calls of fetchAvailableCudaVersions against the same listings
\* return the same array, entry for entry, whatever the order in which the
\* fetches of each call completed.
C5_Deterministic ==
  (run = 2 /\ pc = "returned") => versions = prev.versions

\* Both calls returned, their fetches completed in different orders, and the
\* array holds two entries that compare equal, whose order the sort leaves
\* to the order of insertion.
C5_Witness ==
  /\ run = 2
  /\ pc = "returned"
  /\ prev.pc = "returned"
  /\ prev.settled = <<1, 2, 3>>
  /\ settled = <<3, 2, 1>>
  /\ \E i, j \in 1..Len(versions) :
       i < j /\ compareVersions(versions[i], versions[j]) = 0

\* C6: for "latest", findCudaVersion returns the last entry of the catalog,
\* a maximum of it under compareVersions; on an empty catalog the resolution
\* gives undefined.
C6_Latest ==
  /\ ResolveVersion(<<>>, "latest") = Undefined
  /\ (Found /\ inputVersion = "latest") =>
       /\ found = versions[Len(versions)]
       /\ IsMaximumOf(found, Elements(versions))
       /\ error = NoError

\* "latest" resolved against a catalog whose maximum is not its
\* lexically-last entry.
C6_Witness ==
  /\ Found
  /\ inputVersion = "latest"
  /\ Includes(versions, "11.2.0")
  /\ found = "11.10"

\* The catalog entries that start with specifier + ".".
PrefixSet(vs, s) == {v \in Elements(vs) : StartsWith(v, s \o ".")}

\* C7: for a specifier that is not "latest" and not a catalog entry,
\* findCudaVersion returns, of the entries starting with specifier + ".",
\* one that is highest under compareVersions, and returns undefined without
\* an error when no entry has that prefix.
C7_PrefixResolution ==
  (Found /\ inputVersion # "latest" /\ ~Includes(versions, inputVersion)) =>
    /\ error = NoError
    /\ IF PrefixSet(versions, inputVersion) # {}
       THEN IsMaximumOf(found, PrefixSet(versions, inputVersion))
       ELSE found = Undefined

\* "11" resolved against a catalog holding "11.2" and "11.10".
C7_Witness ==
  /\ Found
  /\ inputVersion = "11"
  /\ Includes(versions, "11.2")
  /\ Includes(versions, "11.10")
  /\ found = "11.10"

\* The manifest was fetched and parsed, and the call is over.
Located ==
  /\ entry = "getCudaInstallerUrl"
  /\ pc \in {"returned", "failed"}
  /\ md5sums # <<>>

ManifestKeys == [i \in 1..Len(md5sums) |-> md5sums[i][1]]

MinOf(S) == CHOOSE i \in S : \A j \in S : i <= j

MaxOf(S) == CHOOSE i \in S : \A j \in S : i >= j

\* The URL of filename f among the local installers of the requested version.
LocalInstaller(f) ==
  "https://developer.download.nvidia.com/compute/cuda/" \o version
    \o "/local_installers/" \o f

NoMatchingInstaller ==
  pc = "failed" /\ error.kind = "no-matching-installer" /\ url = ""

\* C8: for a key of CUDA_LINKS on (Linux, x86-64) or (Windows, any
\* architecture), getCudaInstallerUrl returns the table's linuxX86Url,
\* respectively windowsUrl, and issues no HTTP GET.
C8_LegacyNoFetch ==
  (/\ entry = "getCudaInstallerUrl"
   /\ InCudaLinks(version)
   /\ ((os = OS_LINUX /\ arch = ARCH_X86_64) \/ os = OS_WINDOWS))
    => /\ pc = "returned"
       /\ url = IF os = OS_LINUX THEN CUDA_LINKS[version].linuxX86Url
                ELSE CUDA_LINKS[version].windowsUrl
       /\ requests = <<>>
       /\ md5sums = <<>>

\* A legacy version was located for Windows on ARM64.
C8_Witness ==
  /\ entry = "getCudaInstallerUrl"
  /\ version = "10.1.2"
  /\ os = OS_WINDOWS
  /\ arch = ARCH_ARM64_SBSA
  /\ pc = "returned"

\* d is a driver version: two or three runs of digits joined by dots.
IsDriverVersion(d) ==
  LET parts == Split(d, ".")
  IN Len(parts) \in {2, 3} /\ \A i \in 1..Len(parts) : IsDigits(parts[i])

\* f holds cuda_<version>_<driverversion><suffix>.
IsInstallerName(f, suffix) ==
  \E i \in 1..Len(f) :
    /\ HasAt(f, i, "cuda_" \o version \o "_")
    /\ \E j \in (i + Len(version) + 6)..Len(f) :
         /\ HasAt(f, j, suffix)
         /\ IsDriverVersion(SubSeq(f, i + Len(version) + 6, j - 1))

LinuxHits ==
  {i \in 1..Len(md5sums) :
     IsInstallerName(ManifestKeys[i],
       IF arch = ARCH_X86_64 THEN "_linux.run" ELSE "_linux_sbsa.run")}

\* C9: on Linux, for a version with major >= 11 whose manifest was fetched,
\* getCudaInstallerUrl returns .../<version>/local_installers/<filename>
\* for the first manifest key, in iteration order, that matches the
\* installer name of the architecture, and fails with the
\* no-matching-installer error when no key matches.
C9_ModernLinux ==
  (Located /\ os = OS_LINUX /\ MajorAtLeast11(version)) =>
    IF LinuxHits # {}
    THEN /\ pc = "returned"
         /\ url = LocalInstaller(ManifestKeys[MinOf(LinuxHits)])
    ELSE NoMatchingInstaller

\* Two keys match for x86-64 and the first key of the manifest does not.
C9_Witness ==
  /\ Located
  /\ os = OS_LINUX
  /\ arch = ARCH_X86_64
  /\ version = "11.2.0"
  /\ Cardinality(LinuxHits) = 2
  /\ MinOf(LinuxHits) = 2
  /\ pc = "returned"

WindowsHits ==
  {i \in 1..Len(md5sums) : EndsWith(ManifestKeys[i], "_windows.exe")}

Win10Hits ==
  {i \in 1..Len(md5sums) : EndsWith(ManifestKeys[i], "_win10.exe")}

\* C10: on Windows, getCudaInstallerUrl returns the URL of the first manifest
\* key that ends in _windows.exe when there is one, however many _win10.exe
\* keys stand before or after it; else the URL of the last key that ends in
\* _win10.exe; else it fails with the no-matching-installer error.
C10_WindowsSelection ==
  (Located /\ os = OS_WINDOWS) =>
    IF WindowsHits # {}
      THEN /\ pc = "returned"
           /\ url = LocalInstaller(ManifestKeys[MinOf(WindowsHits)])
    ELSE IF Win10Hits # {}
      THEN /\ pc = "returned"
           /\ url = LocalInstaller(ManifestKeys[MaxOf(Win10Hits)])
    ELSE NoMatchingInstaller

\* A _windows.exe key stands between two _win10.exe keys.
C10_Witness ==
  /\ Located
  /\ os = OS_WINDOWS
  /\ Len(md5sums) = 3
  /\ WindowsHits = {2}
  /\ Win10Hits = {1, 3}
  /\ pc = "returned"

=============================================================================
